---- MODULE Spec2Model ----
(***************************************************************************)
(* Option pricer: payoff evaluators, barrier monitoring, the Monte Carlo   *)
(* pricing engine and the delta-hedging simulator of CallOption,           *)
(* PutOption, BarrierOption, AsianOption and LookbackOption.               *)
(*                                                                         *)
(* Numbers.  A double is modelled by an integer, or by the value NaN; the  *)
(* quotient x/0 of a positive x is Inf.  Prices are counted in a unit      *)
(* that makes every quotient the runs take exact (spots are multiples of   *)
(* 300, so 0.01*spot and the mean of up to six prices are integers).       *)
(* Time is counted in ticks; the rate r is such that exp(r * 1 tick) = 2   *)
(* when model.rate = 1 and exp(r * t) = 1 when model.rate = 0.             *)
(* The random draws (std::normal_distribution in price, rand() in          *)
(* hedgeCost) are a nondeterministic choice of the next spot.              *)
(***************************************************************************)
EXTENDS Integers, Sequences, FiniteSets, TLC

VARIABLES
    model,    \* the caller's BlackScholesModel {spot, rate, volatility, dividend}
    option,   \* the option object the session operates on
    hc,       \* the frame of a hedgeCost call (its locals and its position)
    pr,       \* the frame of a top-level price call
    pf        \* the frame of a call of payoff / isBarrierTouched

vars == <<model, option, hc, pr, pf>>

---------------------------------------------------------------------------
(* Bounds of the model *)

MaxSteps == 3        \* hedgeCost is run with steps in 0..MaxSteps
MaxPriceSteps == 2   \* price is run with steps in 0..MaxPriceSteps
MaxPaths == 2        \* price is run with numPaths in 0..MaxPaths
MaxLen == 3          \* payoff and isBarrierTouched are called on paths up to this length

(* Input values *)

SpotValues == {300, 30000, 60000}     \* the prices a simulated spot can take
InitialSpots == {30000, 60000}        \* model.spot read by main
Rates == {0, 1}                       \* model.rate
Strikes == {30000}
Barriers == {45000}
Maturities == {0, 12}                 \* ticks; 12 is divisible by every steps in 1..4
PriceValues == {0, 1200}              \* the values a Monte Carlo estimate is sampled at

---------------------------------------------------------------------------
(* Double arithmetic *)

NaN == -1000000000
Inf == 1000000000

FAdd(a, b) == IF a = NaN \/ b = NaN THEN NaN ELSE a + b
FSub(a, b) == IF a = NaN \/ b = NaN THEN NaN ELSE a - b
FMul(a, b) == IF a = NaN \/ b = NaN THEN NaN ELSE a * b
FDiv(a, b) ==
    IF a = NaN \/ b = NaN THEN NaN
    ELSE IF b = 0 THEN (IF a = 0 THEN NaN ELSE IF a > 0 THEN Inf ELSE -Inf)
    ELSE a \div b

\* std::max(a, b) is (a < b) ? b : a, and every comparison with NaN is false
StdMax(a, b) == IF a = NaN THEN NaN ELSE IF b = NaN THEN a ELSE IF a < b THEN b ELSE a

RECURSIVE Pow2(_)
Pow2(k) == IF k <= 0 THEN 1 ELSE 2 * Pow2(k - 1)

\* std::exp(rate * t), t in ticks
ExpRate(rate, t) == Pow2(rate * t)

RECURSIVE Accumulate(_)
Accumulate(path) == IF path = <<>> THEN 0 ELSE Head(path) + Accumulate(Tail(path))

RECURSIVE MaxElement(_)
MaxElement(path) ==
    IF Len(path) = 1 THEN path[1]
    ELSE LET m == MaxElement(Tail(path)) IN IF path[1] < m THEN m ELSE path[1]

RECURSIVE MinElement(_)
MinElement(path) ==
    IF Len(path) = 1 THEN path[1]
    ELSE LET m == MinElement(Tail(path)) IN IF m < path[1] THEN m ELSE path[1]

---------------------------------------------------------------------------
(* The option objects and the market model *)

BarrierTypes == {"UpAndOut", "DownAndOut", "UpAndIn", "DownAndIn"}
OptionTypes == {"Call", "Put"}

Options ==
    [variant : {"Call"}, optionType : {"Call"}, barrierType : {"None"},
     strike : Strikes, maturity : Maturities, barrier : {0}]
    \cup
    [variant : {"Put"}, optionType : {"Put"}, barrierType : {"None"},
     strike : Strikes, maturity : Maturities, barrier : {0}]
    \cup
    [variant : {"Asian", "Lookback"}, optionType : OptionTypes, barrierType : {"None"},
     strike : Strikes, maturity : Maturities, barrier : {0}]
    \cup
    [variant : {"Barrier"}, optionType : OptionTypes, barrierType : BarrierTypes,
     strike : Strikes, maturity : Maturities, barrier : Barriers]

Models == [spot : InitialSpots, rate : Rates, volatility : {1}, dividend : {0}]

KnockOut(opt) == opt.barrierType \in {"UpAndOut", "DownAndOut"}
KnockIn(opt) == opt.barrierType \in {"UpAndIn", "DownAndIn"}

---------------------------------------------------------------------------
(* Payoff evaluators *)

\* mutant: the call payoff is not floored at 0
CallPayoffUnfloored(opt, spot) == FSub(spot, opt.strike)

CallPayoff(opt, spot) == StdMax(FSub(spot, opt.strike), 0)

PutPayoff(opt, spot) == StdMax(FSub(opt.strike, spot), 0)

BarrierPayoff(opt, spot) ==
    IF opt.optionType = "Call"
    THEN StdMax(FSub(spot, opt.strike), 0)
    ELSE StdMax(FSub(opt.strike, spot), 0)

\* mutant: the sum of the prices is divided by one more than their number
AsianPayoffOffByOne(opt, path) ==
    LET average == FDiv(Accumulate(path), Len(path) + 1) IN
    IF opt.optionType = "Call"
    THEN StdMax(FSub(average, opt.strike), 0)
    ELSE StdMax(FSub(opt.strike, average), 0)

AsianPayoff(opt, path) ==
    LET average == FDiv(Accumulate(path), Len(path)) IN
    IF opt.optionType = "Call"
    THEN StdMax(FSub(average, opt.strike), 0)
    ELSE StdMax(FSub(opt.strike, average), 0)

\* mutant: the call looks back to the lowest price and the put to the highest
LookbackPayoffSwapped(opt, path) ==
    IF opt.optionType = "Call"
    THEN LET minPrice == MinElement(path) IN StdMax(FSub(minPrice, opt.strike), 0)
    ELSE LET maxPrice == MaxElement(path) IN StdMax(FSub(opt.strike, maxPrice), 0)

\* path is not empty: max_element of an empty range is the end iterator
LookbackPayoff(opt, path) ==
    IF opt.optionType = "Call"
    THEN LET maxPrice == MaxElement(path) IN StdMax(FSub(maxPrice, opt.strike), 0)
    ELSE LET minPrice == MinElement(path) IN StdMax(FSub(opt.strike, minPrice), 0)

\* The outcome of a call: a returned value, or an exception leaving the call
Returned(v) == [status |-> "returned", value |-> v]
Thrown(what) == [status |-> "threw", value |-> what]

\* mutant: the overload returns a default value instead of throwing
AsianPayoffSpotDefault(opt, spot) == Returned(0)

AsianPayoffSpot(opt, spot) == Thrown("logic_error")

LookbackPayoffSpot(opt, spot) == Thrown("logic_error")

\* option.payoff(spot), dispatched on the class of the object
payoff(opt, spot) ==
    CASE opt.variant = "Call" -> Returned(CallPayoff(opt, spot))
      [] opt.variant = "Put" -> Returned(PutPayoff(opt, spot))
      [] opt.variant = "Barrier" -> Returned(BarrierPayoff(opt, spot))
      [] opt.variant = "Asian" -> AsianPayoffSpot(opt, spot)
      [] opt.variant = "Lookback" -> LookbackPayoffSpot(opt, spot)

---------------------------------------------------------------------------
(* Barrier monitoring *)

\* the loop for (i = 1; i < path.size(); ++i), entered at the TLA+ index i
\* (the C++ index i - 1); it returns at the first crossing
RECURSIVE UpCrossing(_, _, _)
UpCrossing(path, barrier, i) ==
    IF i > Len(path) THEN FALSE
    ELSE IF path[i - 1] < barrier /\ path[i] >= barrier THEN TRUE
    ELSE UpCrossing(path, barrier, i + 1)

RECURSIVE DownCrossing(_, _, _)
DownCrossing(path, barrier, i) ==
    IF i > Len(path) THEN FALSE
    ELSE IF path[i - 1] > barrier /\ path[i] <= barrier THEN TRUE
    ELSE DownCrossing(path, barrier, i + 1)

\* mutant: the barrier itself does not count, only a price beyond it
RECURSIVE UpCrossingStrict(_, _, _)
UpCrossingStrict(path, barrier, i) ==
    IF i > Len(path) THEN FALSE
    ELSE IF path[i - 1] < barrier /\ path[i] > barrier THEN TRUE
    ELSE UpCrossingStrict(path, barrier, i + 1)

isBarrierTouchedStrict(opt, path) ==
    CASE opt.barrierType \in {"UpAndOut", "UpAndIn"} -> UpCrossingStrict(path, opt.barrier, 2)
      [] opt.barrierType \in {"DownAndOut", "DownAndIn"} -> DownCrossing(path, opt.barrier, 2)
      [] OTHER -> FALSE

\* mutant: only the latest step of the path is tested
isBarrierTouchedLastStep(opt, path) ==
    CASE opt.barrierType \in {"UpAndOut", "UpAndIn"} ->
            UpCrossing(path, opt.barrier, IF Len(path) > 2 THEN Len(path) ELSE 2)
      [] opt.barrierType \in {"DownAndOut", "DownAndIn"} ->
            DownCrossing(path, opt.barrier, IF Len(path) > 2 THEN Len(path) ELSE 2)
      [] OTHER -> FALSE

isBarrierTouched(opt, path) ==
    CASE opt.barrierType \in {"UpAndOut", "UpAndIn"} -> UpCrossing(path, opt.barrier, 2)
      [] opt.barrierType \in {"DownAndOut", "DownAndIn"} -> DownCrossing(path, opt.barrier, 2)
      [] OTHER -> FALSE

---------------------------------------------------------------------------
(* The closed-form delta of the vanilla hedgeCost *)

\* N(d1) with d1 = (log(spot/strike) + (r - q + sigma^2/2) * tau) / (sigma * sqrt(tau)).
\* tau = 0 divides by zero: d1 is +Inf, -Inf or 0/0 = NaN by the sign of log(spot/strike).
\* tau < 0 takes the square root of a negative number: NaN.
\* tau > 0: N(d1) is sampled at its saturated values, 1 for spot >= strike and 0 below.
NormalD1(opt, spot, tau) ==
    IF tau < 0 THEN NaN
    ELSE IF tau = 0 THEN (IF spot = opt.strike THEN NaN ELSE IF spot > opt.strike THEN 1 ELSE 0)
    ELSE IF spot >= opt.strike THEN 1 ELSE 0

\* exp(-dividend * tau) * N(d1) for the call, exp(-dividend * tau) * (N(d1) - 1) for the put
\* (dividend = 0 in every model)
AnalyticDelta(opt, spot, tau) ==
    IF opt.variant = "Call"
    THEN NormalD1(opt, spot, tau)
    ELSE FSub(NormalD1(opt, spot, tau), 1)

---------------------------------------------------------------------------
(* The Monte Carlo price as the hedging simulator sees it: the set of values a
   call can return.  Crash stands for the process ending in the call. *)

Crash == 2000000000

HedgeNumPaths == 10000

priceMC(opt, m, numPaths, steps, adjustedMaturity) ==
    IF numPaths = 0 THEN {NaN}                     \* sumPayoffs / numPaths is 0.0 / 0
    ELSE IF numPaths < 0 THEN {0}
    ELSE IF steps = 0 THEN
        CASE opt.variant = "Asian" -> {NaN}        \* the mean of an empty path is 0.0 / 0
          [] opt.variant = "Lookback" -> PriceValues   \* the payoff of the path <<m.spot>>
          [] opt.variant = "Barrier" ->
                \* the empty path is never touched: a knock-in pays 0, a knock-out
                \* reads path.back() of an empty vector
                IF KnockIn(opt) THEN {0} ELSE PriceValues \cup {NaN, Crash}
    ELSE PriceValues

\* price(model, numPaths, steps): the horizon is the option's own maturity
price3(opt, m, numPaths, steps) == priceMC(opt, m, numPaths, steps, opt.maturity)

\* the record of one nested call of price
PriceCallRec(m, numPaths, steps, horizon) ==
    [model |-> m, numPaths |-> numPaths, steps |-> steps, horizon |-> horizon]

---------------------------------------------------------------------------
(* hedgeCost: the frame of a call *)

NoModel == [spot |-> 0, rate |-> 0, volatility |-> 0, dividend |-> 0]

HcIdle ==
    [pc |-> "idle", status |-> "none", result |-> 0,
     steps |-> 0, i |-> 0, dt |-> 0, time |-> 0, adjustedMaturity |-> 0,
     epsilon |-> 0, modelUp |-> NoModel, modelDown |-> NoModel,
     priceUp |-> 0, priceDown |-> 0, previousDelta |-> 0, delta |-> 0,
     spot |-> 0, cash |-> 0, path |-> <<>>, barrierTouched |-> FALSE,
     tau |-> <<>>, calls |-> <<>>, draws |-> 0]

Vanilla(opt) == opt.variant \in {"Call", "Put"}

\* (priceUp - priceDown) / (2 * epsilon)
FiniteDifference(priceUp, priceDown, epsilon) ==
    FDiv(FSub(priceUp, priceDown), 2 * epsilon)

\* mutant: the bumped model is rebuilt from its spot alone, the rate is not copied
BumpedModelSpotOnly(m, spot) == [m EXCEPT !.spot = spot, !.rate = 0]

\* BlackScholesModel modelUp = model; modelUp.spot = ...: a copy by value of the
\* model with its own spot; the model it is copied from is not written
BumpedModel(m, spot) == [m EXCEPT !.spot = spot]

\* mutant: the nested price draws from the random source of the hedging trajectory
RandAfterPriceShared(draws) == draws + 1

\* the position of rand(), the random source of the hedging trajectory, after a
\* nested price: price is a const member that draws from its own std::mt19937 only
RandAfterPrice(draws) == draws

\* CallOption::hedgeCost and PutOption::hedgeCost up to the loop: the delta at t = 0
\* from the closed form, with no test of steps, volatility or maturity before it.
\* tau records the time to maturity each delta was computed with.
VanillaEntry(steps) ==
    LET dt == FDiv(option.maturity, steps)
        spot == model.spot
        currentDelta == AnalyticDelta(option, spot, option.maturity)
    IN  hc' = [HcIdle EXCEPT !.pc = "loop", !.status = "running", !.steps = steps,
                             !.i = 1, !.dt = dt, !.spot = spot,
                             !.previousDelta = 0, !.delta = currentDelta,
                             !.cash = FMul(currentDelta, spot),
                             !.tau = <<option.maturity>>]

\* AsianOption::, LookbackOption:: and BarrierOption::hedgeCost up to the loop: epsilon
\* from model.spot, the two bumped copies of the model, the two nested prices over the
\* option's own maturity, the initial delta and the cash account.
ExoticEntry(steps) ==
    LET numPaths == HedgeNumPaths
        epsilon == model.spot \div 100
        modelUp == BumpedModel(model, model.spot + epsilon)
        modelDown == BumpedModel(model, model.spot - epsilon)
        calls == << PriceCallRec(modelUp, numPaths, steps, option.maturity),
                    PriceCallRec(modelDown, numPaths, steps, option.maturity) >>
    IN  \E priceUp \in price3(option, modelUp, numPaths, steps),
           priceDown \in price3(option, modelDown, numPaths, steps) :
            IF priceUp = Crash \/ priceDown = Crash
            THEN hc' = [HcIdle EXCEPT !.pc = "done", !.status = "crashed", !.steps = steps,
                                      !.epsilon = epsilon, !.modelUp = modelUp,
                                      !.modelDown = modelDown, !.calls = calls]
            ELSE LET delta == FiniteDifference(priceUp, priceDown, epsilon)
                     dt == FDiv(option.maturity, steps)
                     spot == model.spot
                     path == <<spot>>
                 IN  hc' = [HcIdle EXCEPT
                              !.pc = "loop", !.status = "running", !.steps = steps,
                              !.i = 1, !.dt = dt, !.epsilon = epsilon,
                              !.modelUp = modelUp, !.modelDown = modelDown,
                              !.priceUp = priceUp, !.priceDown = priceDown,
                              !.previousDelta = 0, !.delta = delta,
                              !.spot = spot, !.cash = FMul(delta, spot), !.path = path,
                              !.barrierTouched =
                                  IF option.variant = "Barrier"
                                  THEN isBarrierTouched(option, path) ELSE FALSE,
                              !.tau = <<option.maturity>>, !.calls = calls,
                              !.draws = RandAfterPrice(0)]

Idle == hc.pc = "idle" /\ pr.pc = "idle" /\ pf.pc = "idle"

\* option.hedgeCost(model, steps), as main calls it
HedgeCostCall ==
    /\ Idle
    /\ \E steps \in 0..MaxSteps :
          IF Vanilla(option) THEN VanillaEntry(steps) ELSE ExoticEntry(steps)
    /\ UNCHANGED <<model, option, pr, pf>>

\* mutant: the path-dependent classes leave the loop one step early
LoopConditionOneShort == IF Vanilla(option) THEN hc.i <= hc.steps ELSE hc.i < hc.steps - 1

\* the loop test: for (i = 1; i <= steps; ++i) in CallOption and PutOption,
\* for (i = 1; i < steps; ++i) in the path-dependent classes
LoopCondition == IF Vanilla(option) THEN hc.i <= hc.steps ELSE hc.i < hc.steps

\* Simulate: the spot moves by one draw of rand(); the path-dependent classes record it
\* (and BarrierOption scans the whole recorded path again).  CallOption and PutOption
\* draw nothing in the iteration i = steps.
Simulate ==
    /\ hc.pc = "loop" /\ LoopCondition
    /\ IF Vanilla(option)
       THEN \E spot \in (IF hc.i < hc.steps THEN SpotValues ELSE {hc.spot}) :
                hc' = [hc EXCEPT !.pc = "reprice", !.time = hc.i * hc.dt, !.spot = spot,
                                 !.draws = IF hc.i < hc.steps THEN @ + 1 ELSE @]
       ELSE \E spot \in SpotValues :
                LET path == Append(hc.path, spot) IN
                hc' = [hc EXCEPT !.pc = "reprice",
                                 !.adjustedMaturity = option.maturity - hc.i * hc.dt,
                                 !.spot = spot, !.path = path, !.draws = @ + 1,
                                 !.barrierTouched =
                                     IF option.variant = "Barrier"
                                     THEN isBarrierTouched(option, path) ELSE @]
    /\ UNCHANGED <<model, option, pr, pf>>

\* mutant: only a knock-out stops hedging when the barrier is touched
TouchedDeltaKnockOutOnly(opt, delta) == IF KnockOut(opt) THEN 0 ELSE delta

\* if (barrierTouched) delta = 0: no nested price, whatever the barrier type
TouchedDelta(opt, delta) == 0

\* mutant: the nested price keeps the step count of the whole run
RemainingStepsUnreduced(steps, i) == steps

\* price(modelUp, numPaths, steps - i, ...): the step count of the nested price
RemainingSteps(steps, i) == steps - i

\* Reprice: the delta at the new spot
Reprice ==
    /\ hc.pc = "reprice"
    /\ CASE Vanilla(option) ->
              LET tau == option.maturity - hc.time IN
              hc' = [hc EXCEPT !.pc = "rebalance", !.previousDelta = hc.delta,
                               !.delta = AnalyticDelta(option, hc.spot, tau),
                               !.tau = Append(@, tau)]
         [] option.variant = "Barrier" /\ hc.barrierTouched ->
              hc' = [hc EXCEPT !.pc = "rebalance", !.previousDelta = hc.delta,
                               !.delta = TouchedDelta(option, hc.delta)]
         [] option.variant = "Barrier" /\ ~hc.barrierTouched ->
              LET modelUp == BumpedModel(hc.modelUp, hc.spot + hc.epsilon)
                  modelDown == BumpedModel(hc.modelDown, hc.spot - hc.epsilon)
                  n == RemainingSteps(hc.steps, hc.i)
              IN  \E priceUp \in priceMC(option, modelUp, HedgeNumPaths, n, hc.adjustedMaturity),
                     priceDown \in priceMC(option, modelDown, HedgeNumPaths, n, hc.adjustedMaturity) :
                     hc' = [hc EXCEPT
                              !.pc = "rebalance", !.previousDelta = hc.delta,
                              !.modelUp = modelUp, !.modelDown = modelDown,
                              !.priceUp = priceUp, !.priceDown = priceDown,
                              !.delta = FiniteDifference(priceUp, priceDown, hc.epsilon),
                              !.draws = RandAfterPrice(@),
                              !.tau = Append(@, hc.adjustedMaturity),
                              !.calls = @ \o
                                 << PriceCallRec(modelUp, HedgeNumPaths, n, hc.adjustedMaturity),
                                    PriceCallRec(modelDown, HedgeNumPaths, n, hc.adjustedMaturity) >>]
         [] option.variant \in {"Asian", "Lookback"} ->
              LET modelUp == BumpedModel(hc.modelUp, hc.spot + hc.epsilon)
                  modelDown == BumpedModel(hc.modelDown, hc.spot - hc.epsilon)
                  n == RemainingSteps(hc.steps, hc.i)
              IN  \E priceUp \in price3(option, modelUp, HedgeNumPaths, n),
                     priceDown \in price3(option, modelDown, HedgeNumPaths, n) :
                     hc' = [hc EXCEPT
                              !.pc = "rebalance", !.previousDelta = hc.delta,
                              !.modelUp = modelUp, !.modelDown = modelDown,
                              !.priceUp = priceUp, !.priceDown = priceDown,
                              !.delta = FiniteDifference(priceUp, priceDown, hc.epsilon),
                              !.draws = RandAfterPrice(@),
                              !.tau = Append(@, option.maturity),
                              !.calls = @ \o
                                 << PriceCallRec(modelUp, HedgeNumPaths, n, option.maturity),
                                    PriceCallRec(modelDown, HedgeNumPaths, n, option.maturity) >>]
    /\ UNCHANGED <<model, option, pr, pf>>

\* cash += (delta - previousDelta) * spot; cash *= exp(rate * dt)
RebalancedCash(cash, delta, previousDelta, spot, rate, dt) ==
    FMul(FAdd(cash, FMul(FSub(delta, previousDelta), spot)), ExpRate(rate, dt))

\* Rebalance: the cash account pays for the change of delta and accrues over dt
Rebalance ==
    /\ hc.pc = "rebalance"
    /\ hc' = [hc EXCEPT !.pc = "loop", !.i = @ + 1,
                        !.cash = RebalancedCash(hc.cash, hc.delta, hc.previousDelta,
                                                hc.spot, model.rate, hc.dt)]
    /\ UNCHANGED <<model, option, pr, pf>>

\* the payoff BarrierOption::hedgeCost adds to the cash account after the loop
BarrierFinalPayoff(opt, spot, barrierTouched) ==
    LET finalPayoff == BarrierPayoff(opt, spot) IN
    IF KnockIn(opt) /\ barrierTouched THEN finalPayoff
    ELSE IF KnockOut(opt) /\ ~barrierTouched THEN finalPayoff
    ELSE 0

\* mutant: the final payoff is subtracted from the cost
HedgeCostResultMinusPayoff(opt, cash, delta, spot, path, barrierTouched) ==
    CASE opt.variant = "Call" -> FSub(FSub(cash, FMul(delta, spot)), CallPayoff(opt, spot))
      [] opt.variant = "Put" -> FSub(FSub(cash, FMul(delta, spot)), PutPayoff(opt, spot))
      [] opt.variant = "Asian" -> FSub(FSub(cash, FMul(delta, spot)), AsianPayoff(opt, path))
      [] opt.variant = "Lookback" ->
            FSub(FSub(cash, FMul(delta, spot)), LookbackPayoff(opt, path))
      [] opt.variant = "Barrier" ->
            FSub(FSub(cash, BarrierFinalPayoff(opt, spot, barrierTouched)), FMul(delta, spot))

\* the value hedgeCost returns
HedgeCostResult(opt, cash, delta, spot, path, barrierTouched) ==
    CASE opt.variant = "Call" -> FAdd(FSub(cash, FMul(delta, spot)), CallPayoff(opt, spot))
      [] opt.variant = "Put" -> FAdd(FSub(cash, FMul(delta, spot)), PutPayoff(opt, spot))
      [] opt.variant = "Asian" -> FAdd(FSub(cash, FMul(delta, spot)), AsianPayoff(opt, path))
      [] opt.variant = "Lookback" ->
            FAdd(FSub(cash, FMul(delta, spot)), LookbackPayoff(opt, path))
      [] opt.variant = "Barrier" ->
            FSub(FAdd(cash, BarrierFinalPayoff(opt, spot, barrierTouched)), FMul(delta, spot))

\* Finalize: the loop is over, the position is settled and the cost returned
Finalize ==
    /\ hc.pc = "loop" /\ ~LoopCondition
    /\ hc' = [hc EXCEPT
                !.pc = "done", !.status = "returned",
                !.cash = IF option.variant = "Barrier"
                         THEN FAdd(@, BarrierFinalPayoff(option, hc.spot, hc.barrierTouched))
                         ELSE @,
                !.result = HedgeCostResult(option, hc.cash, hc.delta, hc.spot, hc.path,
                                           hc.barrierTouched)]
    /\ UNCHANGED <<model, option, pr, pf>>

---------------------------------------------------------------------------
(* price: the Monte Carlo engine of AsianOption, BarrierOption and LookbackOption,
   run path by path *)

PrIdle ==
    [pc |-> "idle", status |-> "none", form |-> 0,
     model |-> NoModel, numPaths |-> 0, steps |-> 0, adjustedMaturity |-> 0,
     dt |-> 0, sumPayoffs |-> 0, i |-> 0, j |-> 0, spot |-> 0, path |-> <<>>,
     touched |-> FALSE, contribution |-> 0, rng |-> 0, updates |-> 0,
     result |-> [num |-> 0, den |-> 1]]

Horizons == {6}      \* the adjustedMaturity a caller hands to the four-argument price

\* price(model, numPaths, steps, adjustedMaturity) up to the loop over the paths:
\* sumPayoffs, dt and one random engine for the whole call; no argument is tested
PriceEntry(form, m, numPaths, steps, adjustedMaturity) ==
    pr' = [PrIdle EXCEPT !.pc = "paths", !.status = "running", !.form = form,
                         !.model = m, !.numPaths = numPaths, !.steps = steps,
                         !.adjustedMaturity = adjustedMaturity,
                         !.dt = FDiv(adjustedMaturity, steps)]

\* mutant: the three-argument price prices over a fixed horizon, not the maturity
PriceCall3FixedHorizon ==
    /\ Idle /\ ~Vanilla(option)
    /\ \E numPaths \in 0..MaxPaths, steps \in 0..MaxPriceSteps, adjustedMaturity \in Horizons :
          PriceEntry(3, model, numPaths, steps, adjustedMaturity)
    /\ UNCHANGED <<model, option, hc, pf>>

\* price(model, numPaths, steps) forwards to the four-argument price with maturity
PriceCall3 ==
    /\ Idle /\ ~Vanilla(option)
    /\ \E numPaths \in 0..MaxPaths, steps \in 0..MaxPriceSteps :
          PriceEntry(3, model, numPaths, steps, option.maturity)
    /\ UNCHANGED <<model, option, hc, pf>>

PriceCall4 ==
    /\ Idle /\ ~Vanilla(option)
    /\ \E numPaths \in 0..MaxPaths, steps \in 0..MaxPriceSteps, adjustedMaturity \in Horizons :
          PriceEntry(4, model, numPaths, steps, adjustedMaturity)
    /\ UNCHANGED <<model, option, hc, pf>>

\* mutant: the path and the running spot are kept from one path to the next
PathBeginCarried ==
    /\ pr.pc = "paths" /\ pr.i < pr.numPaths
    /\ pr' = [pr EXCEPT !.pc = "steps", !.j = 0,
                        !.spot = IF pr.i = 0 THEN pr.model.spot ELSE @,
                        !.path = IF pr.i > 0 THEN @
                                 ELSE IF option.variant = "Lookback"
                                 THEN <<pr.model.spot>> ELSE <<>>]
    /\ UNCHANGED <<model, option, hc, pf>>

\* mutant: every class records model.spot as the first price of the path
PathBeginSeeded ==
    /\ pr.pc = "paths" /\ pr.i < pr.numPaths
    /\ pr' = [pr EXCEPT !.pc = "steps", !.j = 0, !.spot = pr.model.spot,
                        !.path = <<pr.model.spot>>]
    /\ UNCHANGED <<model, option, hc, pf>>

\* the head of the loop over the paths: a fresh path from model.spot
\* (LookbackOption records the initial spot, the other two do not)
PathBegin ==
    /\ pr.pc = "paths" /\ pr.i < pr.numPaths
    /\ pr' = [pr EXCEPT !.pc = "steps", !.j = 0, !.spot = pr.model.spot,
                        !.path = IF option.variant = "Lookback"
                                 THEN <<pr.model.spot>> ELSE <<>>]
    /\ UNCHANGED <<model, option, hc, pf>>

\* one price update: spot *= exp(drift + diffusion) with one draw of dist(rng)
PathStep ==
    /\ pr.pc = "steps" /\ pr.j < pr.steps
    /\ \E spot \in SpotValues :
          pr' = [pr EXCEPT !.spot = spot, !.path = Append(@, spot), !.j = @ + 1,
                           !.rng = @ + 1, !.updates = @ + 1]
    /\ UNCHANGED <<model, option, hc, pf>>

Back(path) == path[Len(path)]

\* mutant: the knock-out gate is inverted, an untouched knock-out pays nothing
BarrierContributionInverted(opt, path, touched) ==
    IF KnockOut(opt) /\ ~touched THEN 0
    ELSE IF KnockIn(opt) /\ ~touched THEN 0
    ELSE BarrierPayoff(opt, Back(path))

\* mutant: a knock-in never pays, touched or not
BarrierContributionNoKnockIn(opt, path, touched) ==
    IF KnockOut(opt) /\ touched THEN 0
    ELSE IF KnockIn(opt) THEN 0
    ELSE BarrierPayoff(opt, Back(path))

\* mutant: a path that is not gated pays on its first price, not on its last
BarrierContributionFirstPrice(opt, path, touched) ==
    IF KnockOut(opt) /\ touched THEN 0
    ELSE IF KnockIn(opt) /\ ~touched THEN 0
    ELSE BarrierPayoff(opt, path[1])

\* what one path of BarrierOption::price adds to sumPayoffs
BarrierContribution(opt, path, touched) ==
    IF KnockOut(opt) /\ touched THEN 0
    ELSE IF KnockIn(opt) /\ ~touched THEN 0
    ELSE BarrierPayoff(opt, Back(path))

\* the values the payoff of a path can be; path.back() of an empty vector is
\* undefined: any value, NaN, or the end of the process
PathContributions(opt, path, touched) ==
    CASE opt.variant = "Asian" -> {AsianPayoff(opt, path)}
      [] opt.variant = "Lookback" -> {LookbackPayoff(opt, path)}
      [] opt.variant = "Barrier" ->
            IF path = <<>> /\ ~(KnockOut(opt) /\ touched) /\ ~(KnockIn(opt) /\ ~touched)
            THEN {0, NaN, Crash}
            ELSE {BarrierContribution(opt, path, touched)}

\* the end of a path: its payoff is added to sumPayoffs
PathPayoff ==
    /\ pr.pc = "steps" /\ ~(pr.j < pr.steps)
    /\ LET touched == IF option.variant = "Barrier"
                      THEN isBarrierTouched(option, pr.path) ELSE FALSE
       IN  \E c \in PathContributions(option, pr.path, touched) :
              IF c = Crash
              THEN pr' = [pr EXCEPT !.pc = "done", !.status = "crashed", !.touched = touched]
              ELSE pr' = [pr EXCEPT !.pc = "paths", !.i = @ + 1, !.touched = touched,
                                    !.contribution = c,
                                    !.sumPayoffs = FAdd(@, c)]
    /\ UNCHANGED <<model, option, hc, pf>>

\* mutant: the mean of the payoffs is returned without the discount factor
DiscountedMeanUndiscounted(sumPayoffs, numPaths, rate, adjustedMaturity) ==
    IF sumPayoffs = NaN \/ numPaths = 0
    THEN [num |-> NaN, den |-> 1]
    ELSE [num |-> sumPayoffs, den |-> numPaths]

\* exp(-rate * adjustedMaturity) * (sumPayoffs / numPaths) as the fraction
\* sumPayoffs / (numPaths * exp(rate * adjustedMaturity)); 0.0 / 0 is NaN
DiscountedMean(sumPayoffs, numPaths, rate, adjustedMaturity) ==
    IF sumPayoffs = NaN \/ numPaths = 0
    THEN [num |-> NaN, den |-> 1]
    ELSE [num |-> sumPayoffs, den |-> numPaths * ExpRate(rate, adjustedMaturity)]

PriceReturn ==
    /\ pr.pc = "paths" /\ ~(pr.i < pr.numPaths)
    /\ pr' = [pr EXCEPT !.pc = "done", !.status = "returned",
                        !.result = DiscountedMean(pr.sumPayoffs, pr.numPaths,
                                                  pr.model.rate, pr.adjustedMaturity)]
    /\ UNCHANGED <<model, option, hc, pf>>

---------------------------------------------------------------------------
(* Single calls of the payoff evaluators and of isBarrierTouched *)

PfIdle == [pc |-> "idle", fn |-> "none", spot |-> 0, path |-> <<>>,
           outcome |-> Returned(0), touched |-> FALSE]

\* the prices of the paths handed to a single call: the spots and the barrier itself
PathValues == SpotValues \cup Barriers

RECURSIVE PathsOfLength(_)
PathsOfLength(n) ==
    IF n = 0 THEN {<<>>}
    ELSE {Append(p, s) : p \in PathsOfLength(n - 1), s \in PathValues}

Paths == UNION {PathsOfLength(n) : n \in 0..MaxLen}

\* option.payoff(spot)
PayoffSpotCall ==
    /\ Idle
    /\ \E spot \in SpotValues :
          pf' = [PfIdle EXCEPT !.pc = "done", !.fn = "payoff(spot)", !.spot = spot,
                               !.outcome = payoff(option, spot)]
    /\ UNCHANGED <<model, option, hc, pr>>

\* option.payoff(path) of AsianOption and LookbackOption
PayoffPathCall ==
    /\ Idle
    /\ \/ /\ option.variant = "Asian"
          /\ \E path \in Paths :
                pf' = [PfIdle EXCEPT !.pc = "done", !.fn = "payoff(path)", !.path = path,
                                     !.outcome = Returned(AsianPayoff(option, path))]
       \/ /\ option.variant = "Lookback"
          /\ \E path \in Paths \ {<<>>} :
                pf' = [PfIdle EXCEPT !.pc = "done", !.fn = "payoff(path)", !.path = path,
                                     !.outcome = Returned(LookbackPayoff(option, path))]
    /\ UNCHANGED <<model, option, hc, pr>>

\* option.isBarrierTouched(path)
IsBarrierTouchedCall ==
    /\ Idle /\ option.variant = "Barrier"
    /\ \E path \in Paths :
          pf' = [PfIdle EXCEPT !.pc = "done", !.fn = "isBarrierTouched", !.path = path,
                               !.touched = isBarrierTouched(option, path)]
    /\ UNCHANGED <<model, option, hc, pr>>

\* the pricing rule of BarrierOption::price applied to one simulated path:
\* touched = isBarrierTouched(path), then the gate and payoff(path.back())
BarrierContributionCall ==
    /\ Idle /\ option.variant = "Barrier"
    /\ \E path \in Paths \ {<<>>} :
          LET touched == isBarrierTouched(option, path) IN
          pf' = [PfIdle EXCEPT !.pc = "done", !.fn = "contribution", !.path = path,
                               !.touched = touched,
                               !.outcome = Returned(BarrierContribution(option, path, touched))]
    /\ UNCHANGED <<model, option, hc, pr>>

---------------------------------------------------------------------------
(* The session *)

\* main reads the model and the option's parameters and tests none of them
Init ==
    /\ model \in Models
    /\ option \in Options
    /\ hc = HcIdle
    /\ pr = PrIdle
    /\ pf = PfIdle

Next ==
    \/ HedgeCostCall
    \/ Simulate
    \/ Reprice
    \/ Rebalance
    \/ Finalize
    \/ PriceCall3
    \/ PriceCall4
    \/ PathBegin
    \/ PathStep
    \/ PathPayoff
    \/ PriceReturn
    \/ PayoffSpotCall
    \/ PayoffPathCall
    \/ IsBarrierTouchedCall
    \/ BarrierContributionCall

Spec == Init /\ [][Next]_vars

---------------------------------------------------------------------------
(* Claims *)

ValidHedge == hc.steps >= 1 /\ option.maturity > 0

\* C1: in every hedgeCost run with steps >= 1 and maturity > 0, every delta is
\* computed with a time to maturity > 0 (no division by a zero time to maturity,
\* the last step included), and no NaN enters the cash account or the returned cost.
C1_NoDegenerateMaturity ==
    (hc.pc # "idle" /\ ValidHedge) =>
        /\ \A k \in 1..Len(hc.tau) : hc.tau[k] > 0
        /\ hc.cash # NaN
        /\ hc.result # NaN

\* C2: at every rebalancing step i of hedgeCost of Asian, Lookback and Barrier, both
\* nested price calls made for the delta have the horizon maturity - i*dt.
C2_RepriceAtRemainingMaturity ==
    (hc.pc = "rebalance" /\ ValidHedge /\ ~Vanilla(option)
        /\ ~(option.variant = "Barrier" /\ hc.barrierTouched)) =>
        LET n == Len(hc.calls) IN
        /\ hc.calls[n - 1].horizon = option.maturity - hc.i * hc.dt
        /\ hc.calls[n].horizon = option.maturity - hc.i * hc.dt

\* C3: at every delta computation of hedgeCost (the initial one and every rebalancing
\* step) the bump epsilon is 0.01 times the current simulated spot.
C3_EpsilonTracksSpot ==
    (hc.pc \in {"loop", "rebalance"} /\ ValidHedge /\ ~Vanilla(option)
        /\ ~(option.variant = "Barrier" /\ hc.barrierTouched)) =>
        /\ 100 * hc.epsilon = hc.spot
        /\ hc.modelUp.spot = hc.spot + hc.epsilon
        /\ hc.modelDown.spot = hc.spot - hc.epsilon

\* C4: a price call with numPaths <= 0 or steps <= 0 fails with an error before it
\* simulates anything: it ends by an exception, returns no number and reads no
\* element of an empty path.
C4_InvalidPriceFails ==
    (pr.pc # "idle" /\ (pr.numPaths <= 0 \/ pr.steps <= 0)) =>
        /\ pr.pc = "done"
        /\ pr.status = "threw"
        /\ pr.updates = 0

\* C5: hedgeCost called with non-positive steps, volatility or maturity is rejected
\* before any simulation step, delta computation or nested pricing.
C5_InvalidHedgeRejected ==
    (hc.pc # "idle"
        /\ (hc.steps <= 0 \/ model.volatility <= 0 \/ option.maturity <= 0)) =>
        /\ hc.pc = "done"
        /\ hc.status = "threw"
        /\ hc.calls = <<>>
        /\ hc.tau = <<>>
        /\ hc.draws = 0

\* a step of the path from below the barrier to the barrier or above it
UpStep(path, barrier, i) == path[i - 1] < barrier /\ barrier <= path[i]
\* a step of the path from above the barrier to the barrier or below it
DownStep(path, barrier, i) == path[i - 1] > barrier /\ barrier >= path[i]

StrictlyIncreasing(path) == \A i \in 2..Len(path) : path[i - 1] < path[i]

\* C6: isBarrierTouched(path) is true exactly when some index i >= 1 has
\* path[i-1] < barrier <= path[i] (UpAndOut, UpAndIn) or path[i-1] > barrier >= path[i]
\* (DownAndOut, DownAndIn); so it is true on every strictly increasing path that
\* starts below the barrier and reaches it (Up types), and false on every path of
\* length 0 or 1.
C6_TouchedIffCrossing ==
    (pf.pc = "done" /\ pf.fn = "isBarrierTouched") =>
        /\ option.barrierType \in {"UpAndOut", "UpAndIn"} =>
              (pf.touched <=> \E i \in 2..Len(pf.path) : UpStep(pf.path, option.barrier, i))
        /\ option.barrierType \in {"DownAndOut", "DownAndIn"} =>
              (pf.touched <=> \E i \in 2..Len(pf.path) : DownStep(pf.path, option.barrier, i))
        /\ (/\ option.barrierType \in {"UpAndOut", "UpAndIn"}
            /\ Len(pf.path) >= 1
            /\ StrictlyIncreasing(pf.path)
            /\ pf.path[1] < option.barrier
            /\ pf.path[Len(pf.path)] >= option.barrier) => pf.touched
        /\ Len(pf.path) <= 1 => ~pf.touched

\* a strictly increasing path that first reaches the barrier exactly, then exceeds it
C6_Witness ==
    /\ pf.pc = "done" /\ pf.fn = "isBarrierTouched"
    /\ option.barrierType = "UpAndOut"
    /\ Len(pf.path) = 3
    /\ StrictlyIncreasing(pf.path)
    /\ pf.path[2] = option.barrier
    /\ pf.touched

\* the vanilla payoff of the option's strike and type on one price
VanillaPayoff(opt, s) ==
    IF opt.optionType = "Call"
    THEN (IF s > opt.strike THEN s - opt.strike ELSE 0)
    ELSE (IF opt.strike > s THEN opt.strike - s ELSE 0)

\* C7: in BarrierOption::price a simulated path adds to the sum of payoffs: for a
\* knock-out, payoff(path.back()) if the path never touched the barrier and 0 if it
\* did; for a knock-in, payoff(path.back()) if it touched the barrier and 0 if not.
C7_BarrierContribution ==
    (option.variant = "Barrier" /\ pr.pc = "paths" /\ pr.i >= 1 /\ pr.steps >= 1) =>
        LET touched == \/ /\ option.barrierType \in {"UpAndOut", "UpAndIn"}
                          /\ \E i \in 2..Len(pr.path) : UpStep(pr.path, option.barrier, i)
                       \/ /\ option.barrierType \in {"DownAndOut", "DownAndIn"}
                          /\ \E i \in 2..Len(pr.path) : DownStep(pr.path, option.barrier, i)
            terminal == VanillaPayoff(option, pr.path[Len(pr.path)])
        IN  /\ Len(pr.path) = pr.steps
            /\ option.barrierType \in {"UpAndOut", "DownAndOut"} =>
                  pr.contribution = (IF touched THEN 0 ELSE terminal)
            /\ option.barrierType \in {"UpAndIn", "DownAndIn"} =>
                  pr.contribution = (IF touched THEN terminal ELSE 0)

\* a knock-in path that touched the barrier and pays its terminal payoff
C7_Witness ==
    /\ option.variant = "Barrier" /\ option.barrierType = "UpAndIn"
    /\ pr.pc = "paths" /\ pr.i >= 1 /\ pr.steps >= 2
    /\ pr.touched
    /\ pr.contribution > 0

\* C8: during BarrierOption::hedgeCost the flag barrierTouched, once true after a
\* step, is true after every later step and at Finalize, for the four barrier types.
C8_TouchedIsMonotonic ==
    [][(option.variant = "Barrier" /\ hc.barrierTouched) => hc'.barrierTouched]_vars

\* the barrier was touched at the first step and the run went on to its end
C8_Witness ==
    /\ option.variant = "Barrier"
    /\ hc.pc = "done" /\ hc.status = "returned"
    /\ Len(hc.path) >= 3
    /\ isBarrierTouched(option, SubSeq(hc.path, 1, 2))
    /\ ~isBarrierTouched(option, SubSeq(hc.path, 2, Len(hc.path)))
    /\ hc.barrierTouched

\* C9: AsianOption::payoff(double) and LookbackOption::payoff(double) end by an
\* exception for every spot and option type; they return no value.
C9_SpotPayoffUnsupported ==
    (pf.pc = "done" /\ pf.fn = "payoff(spot)" /\ option.variant \in {"Asian", "Lookback"}) =>
        /\ pf.outcome.status = "threw"
        /\ pf.outcome.value = "logic_error"

C9_Witness ==
    /\ pf.pc = "done" /\ pf.fn = "payoff(spot)"
    /\ option.variant = "Lookback" /\ option.optionType = "Put"
    /\ pf.outcome.status = "threw"

\* the payoff the claim C10 names for the end of a hedgeCost run
C10_TerminalPayoff ==
    CASE option.variant \in {"Call", "Put"} -> VanillaPayoff(option, hc.spot)
      [] option.variant = "Asian" -> AsianPayoff(option, hc.path)
      [] option.variant = "Lookback" -> LookbackPayoff(option, hc.path)
      [] option.variant = "Barrier" ->
            IF \/ option.barrierType \in {"UpAndIn", "DownAndIn"} /\ hc.barrierTouched
               \/ option.barrierType \in {"UpAndOut", "DownAndOut"} /\ ~hc.barrierTouched
            THEN VanillaPayoff(option, hc.spot)
            ELSE 0

SameButSpot(a, b) ==
    a.rate = b.rate /\ a.volatility = b.volatility /\ a.dividend = b.dividend

\* C11: no step of a price or hedgeCost call writes the caller's model (spot, rate,
\* volatility, dividend), and every bumped model hedgeCost holds or hands to a nested
\* price is a copy that differs from the caller's model in its spot only.
C11_ModelUnchanged ==
    [][/\ model' = model
       /\ pr'.pc # "idle" => pr'.model = model
       /\ (hc'.pc # "idle" /\ ~Vanilla(option)) =>
             /\ SameButSpot(hc'.modelUp, model)
             /\ SameButSpot(hc'.modelDown, model)
             /\ \A k \in 1..Len(hc'.calls) : SameButSpot(hc'.calls[k].model, model)]_vars

\* a run with a rate to copy, whose bumped models were moved away from the caller's
\* spot by a rebalancing step
C11_Witness ==
    /\ hc.pc = "done" /\ hc.status = "returned"
    /\ model.rate = 1
    /\ Len(hc.calls) >= 4
    /\ hc.calls[3].model.spot # model.spot + hc.epsilon
    /\ hc.calls[3].model.rate = model.rate

\* the payoff of one simulated path, as the pricing rule of each class states it
C12_PayoffOfPath(path) ==
    CASE option.variant = "Asian" -> AsianPayoff(option, path)
      [] option.variant = "Lookback" -> LookbackPayoff(option, path)
      [] option.variant = "Barrier" ->
            LET touched ==
                    \/ /\ option.barrierType \in {"UpAndOut", "UpAndIn"}
                       /\ \E i \in 2..Len(path) : UpStep(path, option.barrier, i)
                    \/ /\ option.barrierType \in {"DownAndOut", "DownAndIn"}
                       /\ \E i \in 2..Len(path) : DownStep(path, option.barrier, i)
            IN  IF KnockOut(option) = touched THEN 0
                ELSE VanillaPayoff(option, path[Len(path)])

\* C12: price(model, numPaths, steps, horizon) of Asian, Barrier and Lookback simulates
\* exactly numPaths paths, each of exactly steps price updates with dt = horizon/steps
\* starting from model.spot, adds the payoff of each path once to the sum, and returns
\* exp(-rate*horizon) * (sum / numPaths).  A call with steps >= 1 always returns.
C12_PriceIsDiscountedMean ==
    [][/\ (pr.pc = "idle" /\ pr'.pc # "idle" /\ pr'.steps >= 1) =>
             /\ pr'.dt * pr'.steps = pr'.adjustedMaturity
             /\ pr'.sumPayoffs = 0 /\ pr'.i = 0
       /\ (pr.pc = "paths" /\ pr'.pc = "steps") =>
             /\ pr'.spot = model.spot /\ pr'.j = 0
             /\ pr.i < pr.numPaths
       /\ (pr.pc = "steps" /\ pr'.pc = "steps") =>
             /\ pr'.j = pr.j + 1 /\ pr'.j <= pr.steps
             /\ pr'.sumPayoffs = pr.sumPayoffs /\ pr'.i = pr.i
       /\ (pr.pc = "steps" /\ pr'.pc = "paths") =>
             /\ pr.j = pr.steps
             /\ pr'.i = pr.i + 1
             /\ pr.steps >= 1 => pr'.sumPayoffs = FAdd(pr.sumPayoffs, C12_PayoffOfPath(pr.path))
       /\ (pr.pc = "paths" /\ pr'.pc = "done") =>
             /\ pr'.status = "returned"
             /\ pr.i = pr.numPaths
             /\ pr.updates = pr.numPaths * pr.steps
             /\ pr'.result.num = (IF pr.numPaths = 0 THEN NaN ELSE pr.sumPayoffs)
             /\ (pr.numPaths > 0 /\ pr.sumPayoffs # NaN) =>
                   pr'.result.den = pr.numPaths * Pow2(model.rate * pr.adjustedMaturity)
       /\ (pr'.pc = "done" /\ pr'.status # "returned") => pr'.steps = 0]_vars

\* two paths of two updates each, a positive sum, discounted over the horizon of the call
C12_Witness ==
    /\ pr.pc = "done" /\ pr.status = "returned" /\ pr.form = 4
    /\ pr.numPaths = 2 /\ pr.steps = 2 /\ pr.updates = 4
    /\ model.rate = 1
    /\ pr.sumPayoffs > 0
    /\ pr.result.den = 2 * 64

\* the frame the four-argument price starts from when it is called with these arguments
C13_FourArgumentFrame(m, numPaths, steps, horizon) ==
    [PrIdle EXCEPT !.pc = "paths", !.status = "running", !.form = 4, !.model = m,
                   !.numPaths = numPaths, !.steps = steps, !.adjustedMaturity = horizon,
                   !.dt = FDiv(horizon, steps)]

\* C13: for Asian, Barrier and Lookback, price(model, numPaths, steps) is the operation
\* price(model, numPaths, steps, horizon) with horizon = the option's own maturity:
\* it starts the same run (same path count, step count and dt) and its result is
\* discounted over the option's maturity.
C13_ThreeArgumentIsFourArgument ==
    [][/\ (pr.pc = "idle" /\ pr'.pc # "idle" /\ pr'.form = 3) =>
             [pr' EXCEPT !.form = 4] =
                 C13_FourArgumentFrame(model, pr'.numPaths, pr'.steps, option.maturity)
       /\ (pr.form = 3 /\ pr'.pc # "idle") =>
             /\ pr'.form = 3
             /\ pr'.adjustedMaturity = option.maturity
             /\ pr'.numPaths = pr.numPaths /\ pr'.steps = pr.steps /\ pr'.dt = pr.dt
       /\ (pr.form = 3 /\ pr.pc = "paths" /\ pr'.pc = "done"
              /\ pr.numPaths > 0 /\ pr.sumPayoffs # NaN) =>
             pr'.result = [num |-> pr.sumPayoffs,
                           den |-> pr.numPaths * Pow2(model.rate * option.maturity)]]_vars

\* a three-argument call that ran two paths of two steps over the maturity of the option
C13_Witness ==
    /\ pr.pc = "done" /\ pr.status = "returned" /\ pr.form = 3
    /\ pr.numPaths = 2 /\ pr.steps = 2 /\ pr.updates = 4
    /\ option.maturity = 12 /\ pr.dt = 6
    /\ model.rate = 1
    /\ pr.result.den = 2 * 4096

\* the barrier type of the same direction with the other knock effect
MatchingBarrierType(barrierType) ==
    CASE barrierType = "UpAndOut" -> "UpAndIn"
      [] barrierType = "UpAndIn" -> "UpAndOut"
      [] barrierType = "DownAndOut" -> "DownAndIn"
      [] barrierType = "DownAndIn" -> "DownAndOut"

\* the pricing rule gates the path: it adds 0 without evaluating the payoff
Gated(opt, touched) == (KnockOut(opt) /\ touched) \/ (KnockIn(opt) /\ ~touched)

\* C14: for every non-empty path, barrier type, strike and option type, the knock-out
\* contribution plus the contribution of the knock-in of the same direction equals the
\* vanilla payoff on the terminal price of the path, and exactly one of the two is
\* not gated.
C14_InOutParity ==
    (pf.pc = "done" /\ pf.fn = "contribution") =>
        LET other == [option EXCEPT !.barrierType = MatchingBarrierType(@)]
            otherTouched == isBarrierTouched(other, pf.path)
            otherContribution == BarrierContribution(other, pf.path, otherTouched)
        IN  /\ pf.outcome.status = "returned"
            /\ pf.outcome.value + otherContribution
                  = VanillaPayoff(option, pf.path[Len(pf.path)])
            /\ Gated(option, pf.touched) # Gated(other, otherTouched)

\* a touched path with a positive terminal payoff: the knock-in pays, the knock-out is gated
C14_Witness ==
    /\ pf.pc = "done" /\ pf.fn = "contribution"
    /\ option.barrierType = "DownAndIn" /\ option.optionType = "Put"
    /\ Len(pf.path) = 3
    /\ pf.touched
    /\ pf.outcome.value > 0

\* C15: on every path where no price reaches the barrier (all prices strictly below it
\* for UpAndOut, all strictly above it for DownAndOut) the knock-out contribution is
\* the vanilla payoff of the same strike and type on the terminal price of the path.
C15_UntouchedKnockOutIsVanilla ==
    (/\ pf.pc = "done" /\ pf.fn = "contribution"
     /\ \/ /\ option.barrierType = "UpAndOut"
           /\ \A i \in 1..Len(pf.path) : pf.path[i] < option.barrier
        \/ /\ option.barrierType = "DownAndOut"
           /\ \A i \in 1..Len(pf.path) : pf.path[i] > option.barrier) =>
        /\ ~pf.touched
        /\ pf.outcome = Returned(VanillaPayoff(option, pf.path[Len(pf.path)]))

\* an up-and-out put whose path stays below the barrier and ends below the strike,
\* away from its first price
C15_Witness ==
    /\ pf.pc = "done" /\ pf.fn = "contribution"
    /\ option.barrierType = "UpAndOut" /\ option.optionType = "Put"
    /\ Len(pf.path) = 3
    /\ \A i \in 1..3 : pf.path[i] < option.barrier
    /\ pf.path[1] = 30000 /\ pf.path[3] = 300
    /\ pf.outcome.value = 29700

\* C16: CallOption::payoff(spot) = max(spot - strike, 0), PutOption::payoff(spot) =
\* max(strike - spot, 0), BarrierOption::payoff(spot) is the call or the put formula
\* according to its optionType; the result is never negative.
C16_VanillaPayoff ==
    (pf.pc = "done" /\ pf.fn = "payoff(spot)"
        /\ option.variant \in {"Call", "Put", "Barrier"}) =>
        /\ pf.outcome.status = "returned"
        /\ pf.outcome.value >= 0
        /\ (option.variant = "Call" \/ option.optionType = "Call") =>
              pf.outcome.value =
                  (IF pf.spot - option.strike > 0 THEN pf.spot - option.strike ELSE 0)
        /\ (option.variant = "Put" \/ option.optionType = "Put") =>
              pf.outcome.value =
                  (IF option.strike - pf.spot > 0 THEN option.strike - pf.spot ELSE 0)

\* a call out of the money: the difference spot - strike is negative, the payoff is 0
C16_Witness ==
    /\ pf.pc = "done" /\ pf.fn = "payoff(spot)"
    /\ option.variant = "Call"
    /\ pf.spot < option.strike
    /\ pf.outcome = Returned(0)

\* the sum of the first n prices of a path
RECURSIVE SumOfPrices(_, _)
SumOfPrices(path, n) == IF n = 0 THEN 0 ELSE SumOfPrices(path, n - 1) + path[n]

\* C17: for every non-empty path, AsianOption::payoff(path) is max(mean - strike, 0)
\* for a call and max(strike - mean, 0) for a put, mean being the arithmetic mean of
\* all the prices of the path; for a call with positive prices 0 <= payoff <= max(path).
C17_AsianPayoff ==
    (pf.pc = "done" /\ pf.fn = "payoff(path)" /\ option.variant = "Asian"
        /\ pf.path # <<>>) =>
        LET n == Len(pf.path)
            value == pf.outcome.value
        IN  /\ pf.outcome.status = "returned"
            /\ LET mean == SumOfPrices(pf.path, n) \div n IN
                  /\ mean * n = SumOfPrices(pf.path, n)
                  /\ option.optionType = "Call" =>
                        value = (IF mean > option.strike THEN mean - option.strike ELSE 0)
                  /\ option.optionType = "Put" =>
                        value = (IF option.strike > mean THEN option.strike - mean ELSE 0)
            /\ (option.optionType = "Call" /\ \A i \in 1..n : pf.path[i] > 0) =>
                  /\ 0 <= value
                  /\ \E i \in 1..n : value <= pf.path[i]

\* a call on three different prices whose mean is above the strike
C17_Witness ==
    /\ pf.pc = "done" /\ pf.fn = "payoff(path)" /\ option.variant = "Asian"
    /\ option.optionType = "Call"
    /\ pf.path = <<30000, 60000, 45000>>
    /\ pf.outcome = Returned(15000)

\* C18: for every non-empty path, LookbackOption::payoff(path) is
\* max(max(path) - strike, 0) for a call and max(strike - min(path), 0) for a put, and
\* the call payoff is >= the vanilla call payoff max(path.back() - strike, 0).
C18_LookbackPayoff ==
    (pf.pc = "done" /\ pf.fn = "payoff(path)" /\ option.variant = "Lookback"
        /\ pf.path # <<>>) =>
        LET n == Len(pf.path)
            value == pf.outcome.value
            last == pf.path[n]
        IN  /\ pf.outcome.status = "returned"
            /\ option.optionType = "Call" =>
                  /\ \E k \in 1..n :
                        /\ \A i \in 1..n : pf.path[i] <= pf.path[k]
                        /\ value = (IF pf.path[k] > option.strike
                                    THEN pf.path[k] - option.strike ELSE 0)
                  /\ value >= (IF last > option.strike THEN last - option.strike ELSE 0)
            /\ option.optionType = "Put" =>
                  \E k \in 1..n :
                        /\ \A i \in 1..n : pf.path[i] >= pf.path[k]
                        /\ value = (IF option.strike > pf.path[k]
                                    THEN option.strike - pf.path[k] ELSE 0)

\* a call whose path peaked above the strike and ended below it
C18_Witness ==
    /\ pf.pc = "done" /\ pf.fn = "payoff(path)" /\ option.variant = "Lookback"
    /\ option.optionType = "Call"
    /\ pf.path = <<30000, 60000, 300>>
    /\ pf.outcome = Returned(30000)

\* C19: every hedgeCost run with steps >= 1 enters once, then runs exactly steps-1
\* loop iterations, each one Simulate (one draw), then Reprice, then Rebalance, then
\* Finalize once; the delta is recomputed only in Reprice and the cash account
\* updated only in Rebalance of those iterations (and settled in Finalize).
C19_HedgeStateMachine ==
    [][(hc'.steps >= 1) =>
          /\ hc'.pc = "reprice" =>
                /\ hc.pc = "loop"
                /\ hc'.draws = hc.draws + 1
                /\ hc.i <= hc.steps - 1
          /\ hc'.pc = "rebalance" => hc.pc = "reprice"
          /\ hc.pc = "rebalance" => (hc'.pc = "loop" /\ hc'.i = hc.i + 1)
          /\ (hc.pc # "idle" /\ hc'.delta # hc.delta) => hc.pc = "reprice"
          /\ (hc.pc # "idle" /\ hc'.cash # hc.cash) => (hc.pc = "rebalance" \/ hc'.pc = "done")
          /\ (hc.pc # "idle" /\ hc'.pc = "done") =>
                /\ hc.pc = "loop"
                /\ hc'.status = "returned"
                /\ hc.draws = hc.steps - 1
                /\ hc.i - 1 = hc.steps - 1]_vars

\* C20: in hedgeCost of every variant the cash account starts at delta_0 * spot_0 and
\* each rebalancing step updates it exactly once, by
\* cash := (cash + (delta_new - delta_old) * spot) * exp(rate*dt), spot being the spot
\* simulated in that step and delta_old the delta in force at the end of the previous
\* step (delta_0 for the first step).
C20_CashAccount ==
    [][(hc'.steps >= 1 /\ option.maturity > 0) =>
          /\ (hc.pc = "idle" /\ hc'.pc = "loop" /\ hc'.delta # NaN) =>
                /\ hc'.spot = model.spot
                /\ hc'.cash = hc'.delta * hc'.spot
          /\ (hc.pc = "loop" /\ hc'.pc = "reprice") =>
                /\ hc'.draws = hc.draws + 1
                /\ hc'.cash = hc.cash /\ hc'.delta = hc.delta
          /\ (hc.pc = "reprice" /\ hc'.pc = "rebalance") =>
                /\ hc'.previousDelta = hc.delta
                /\ hc'.spot = hc.spot /\ hc'.cash = hc.cash
          /\ (hc.pc = "rebalance" /\ hc'.pc = "loop") =>
                /\ hc'.spot = hc.spot /\ hc'.delta = hc.delta
                /\ (hc.cash # NaN /\ hc.delta # NaN /\ hc.previousDelta # NaN) =>
                      hc'.cash = (hc.cash + (hc.delta - hc.previousDelta) * hc.spot)
                                    * Pow2(model.rate * hc.dt)]_vars

\* C21: at every rebalancing step i of hedgeCost of Asian, Lookback and Barrier, the
\* nested pricer is called with steps - i steps, and its time step
\* horizon / (steps - i) is the dt = maturity / steps of the hedging loop.
C21_NestedTimeStep ==
    (hc.pc = "rebalance" /\ ValidHedge /\ ~Vanilla(option)
        /\ ~(option.variant = "Barrier" /\ hc.barrierTouched)) =>
        LET n == Len(hc.calls) IN
        \A k \in {n - 1, n} :
            /\ hc.calls[k].steps = hc.steps - hc.i
            /\ hc.calls[k].horizon = hc.dt * hc.calls[k].steps

\* C22: every model handed to a pricer during hedgeCost has spot > 0: with an initial
\* spot > 0, the bumped-up spot and the bumped-down spot (spot - epsilon) are strictly
\* positive for every simulated spot and every step.
C22_BumpedSpotPositive ==
    (hc.pc # "idle" /\ ~Vanilla(option) /\ hc.steps >= 1 /\ model.spot > 0) =>
        /\ \A k \in 1..Len(hc.calls) : hc.calls[k].model.spot > 0
        /\ (hc.pc \in {"reprice", "rebalance"}
              /\ ~(option.variant = "Barrier" /\ hc.barrierTouched)) => hc.spot > hc.epsilon

\* C23: for Asian, Barrier and Lookback the path handed to the payoff or barrier
\* evaluator follows one seed convention in price and in hedgeCost.  hedgeCost of the
\* three classes records model.spot as the first price of its path, so the path of
\* price has to hold model.spot before its steps simulated prices as well.
C23_SeedConvention ==
    /\ (hc.pc \in {"loop", "reprice", "rebalance"} /\ ~Vanilla(option)) =>
          /\ Len(hc.path) = hc.draws + 1
          /\ hc.path[1] = model.spot
    /\ (pr.pc = "paths" /\ pr.i >= 1) =>
          /\ Len(pr.path) = pr.steps + 1
          /\ pr.path[1] = pr.model.spot

\* C24: within one price call every path is generated from its own independently
\* seeded random source: the generator a path draws from has consumed no draw of an
\* earlier path, its position depends on the draws of the current path only.
C24_GeneratorPerPath ==
    (pr.pc = "steps") => pr.rng = pr.j

\* C25: in every price call each path is built in a fresh vector and starts from
\* model.spot: the running spot is reset before each path, no price of an earlier
\* path is in the path, and the payoff added for a path is the payoff of its own
\* prices.
C25_FreshPath ==
    [][/\ (pr.pc = "paths" /\ pr'.pc = "steps") =>
             /\ pr'.spot = model.spot
             /\ pr'.path = (IF option.variant = "Lookback" THEN <<model.spot>> ELSE <<>>)
       /\ (pr.pc = "steps" /\ pr'.pc = "steps") =>
             pr'.path = Append(pr.path, pr'.spot)
       /\ (pr.pc = "steps" /\ pr'.pc = "paths" /\ pr.steps >= 1) =>
             /\ Len(pr.path) = pr.steps + (IF option.variant = "Lookback" THEN 1 ELSE 0)
             /\ pr'.contribution = C12_PayoffOfPath(pr.path)]_vars

\* the second path of a call starts empty at model.spot after a first path that moved
\* away from it
C25_Witness ==
    /\ option.variant = "Asian" /\ option.optionType = "Call"
    /\ pr.pc = "steps" /\ pr.i = 1 /\ pr.j = 0
    /\ pr.steps = 2 /\ pr.updates = 2
    /\ pr.sumPayoffs > 0
    /\ pr.path = <<>> /\ pr.spot = model.spot

\* C26: BarrierOption::price tests the barrier between consecutive simulated prices
\* only: the path it scans does not contain model.spot, so a move from model.spot to a
\* first simulated price on or beyond the barrier is no touch, and a path that is
\* beyond the barrier from its first simulated price on is never touched.
C26_PriceScansSimulatedPricesOnly ==
    (option.variant = "Barrier" /\ pr.pc = "paths" /\ pr.i >= 1 /\ pr.steps >= 1) =>
        LET n == Len(pr.path)
            up == option.barrierType \in {"UpAndOut", "UpAndIn"}
        IN  /\ n = pr.steps
            /\ pr.touched <=>
                  \E i \in 2..n : IF up THEN UpStep(pr.path, option.barrier, i)
                                  ELSE DownStep(pr.path, option.barrier, i)
            /\ (up /\ \A i \in 1..n : pr.path[i] >= option.barrier) => ~pr.touched
            /\ (~up /\ \A i \in 1..n : pr.path[i] <= option.barrier) => ~pr.touched
            /\ (KnockOut(option) /\ ~pr.touched) =>
                  pr.contribution = VanillaPayoff(option, pr.path[n])

\* model.spot is below the barrier and every simulated price above it: the up-and-out
\* call is not knocked out and pays
C26_Witness ==
    /\ option.variant = "Barrier" /\ option.barrierType = "UpAndOut"
    /\ option.optionType = "Call"
    /\ pr.pc = "paths" /\ pr.i >= 1 /\ pr.steps = 2
    /\ pr.model.spot < option.barrier
    /\ \A i \in 1..Len(pr.path) : pr.path[i] > option.barrier
    /\ ~pr.touched
    /\ pr.contribution > 0

\* C27: in BarrierOption::hedgeCost, from the first step at which the barrier is
\* touched on, every step sets delta to 0 and makes no nested price call, for the
\* knock-in types as for the knock-out types; the returned cost is then the accrued
\* cash plus the gated final payoff.
C27_NoHedgeAfterTouch ==
    [][(option.variant = "Barrier" /\ hc.barrierTouched) =>
          /\ hc.pc = "reprice" =>
                /\ hc'.delta = 0
                /\ hc'.calls = hc.calls
          /\ hc.pc \in {"rebalance", "loop"} =>
                /\ hc.delta = 0
                /\ hc'.delta = 0
          /\ (hc.pc = "loop" /\ hc'.pc = "done" /\ hc.cash # NaN) =>
                hc'.result = hc.cash + (IF option.barrierType \in {"UpAndIn", "DownAndIn"}
                                        THEN VanillaPayoff(option, hc.spot) ELSE 0)]_vars

\* a knock-in touched at the first step of three: only the two nested calls of Init
\* were made, the delta ends at 0 and the payoff is paid
C27_Witness ==
    /\ option.variant = "Barrier" /\ option.barrierType = "UpAndIn"
    /\ hc.pc = "done" /\ hc.status = "returned"
    /\ hc.steps = 3 /\ hc.barrierTouched
    /\ isBarrierTouched(option, SubSeq(hc.path, 1, 2))
    /\ Len(hc.calls) = 2
    /\ hc.previousDelta = 0 /\ hc.delta = 0
    /\ hc.priceUp # hc.priceDown
    /\ VanillaPayoff(option, hc.spot) > 0

\* C28: in hedgeCost of every variant, with steps >= 1, the spot is advanced exactly
\* steps-1 times: the recorded trajectory holds exactly steps prices, the initial spot
\* included, and the final payoff is evaluated on the spot at time maturity - dt;
\* with steps = 1 the path-dependent variants return the payoff of the one-point
\* trajectory [spot_0].
C28_TrajectoryStopsBeforeMaturity ==
    [][(hc.pc = "loop" /\ hc'.pc = "done" /\ hc.steps >= 1) =>
          /\ hc.draws = hc.steps - 1
          /\ hc.draws * hc.dt = option.maturity - hc.dt
          /\ hc'.spot = hc.spot
          /\ ~Vanilla(option) =>
                /\ Len(hc.path) = hc.steps
                /\ hc.path[1] = model.spot
                /\ hc.path[hc.steps] = hc.spot
                /\ hc'.path = hc.path
          /\ hc.steps = 1 =>
                /\ hc.spot = model.spot
                /\ ~Vanilla(option) =>
                      /\ hc.path = <<model.spot>>
                      /\ hc'.result = C10_TerminalPayoff]_vars

\* a one-step run of a path-dependent call in the money at spot_0 with a delta that is
\* not 0: the cost is the payoff of [spot_0]
C28_Witness ==
    /\ option.variant = "Asian" /\ option.optionType = "Call"
    /\ hc.pc = "done" /\ hc.status = "returned"
    /\ hc.steps = 1
    /\ hc.delta # 0
    /\ hc.result = model.spot - option.strike
    /\ hc.result > 0

\* C29: for steps >= 1, AsianOption::hedgeCost and LookbackOption::hedgeCost call the
\* nested pricer exactly 2*steps times (up then down at Init and at each of the
\* steps-1 iterations, with steps, steps-1, ..., 1 steps), BarrierOption::hedgeCost at
\* most 2*steps times, and every nested call receives a step count in 1..steps.
C29_NestedCalls ==
    (hc.pc # "idle" /\ ~Vanilla(option) /\ hc.steps >= 1) =>
        LET n == Len(hc.calls) IN
        /\ n <= 2 * hc.steps
        /\ \A k \in 1..n : hc.calls[k].steps \in 1..hc.steps
        /\ \E pairs \in 1..hc.steps :
              /\ n = 2 * pairs
              /\ \A j \in 1..pairs :
                    /\ hc.calls[2 * j - 1].model.spot = hc.calls[2 * j].model.spot + 2 * hc.epsilon
                    /\ hc.calls[2 * j - 1].steps = hc.calls[2 * j].steps
        /\ option.variant \in {"Asian", "Lookback"} =>
              /\ \A k \in 1..n : hc.calls[k].steps = hc.steps - ((k - 1) \div 2)
              /\ hc.pc = "done" => n = 2 * hc.steps

\* a Lookback run of three steps: six nested calls, the last two with one step
C29_Witness ==
    /\ option.variant = "Lookback"
    /\ hc.pc = "done" /\ hc.status = "returned"
    /\ hc.steps = 3
    /\ Len(hc.calls) = 6
    /\ hc.calls[5].steps = 1 /\ hc.calls[6].steps = 1

\* C30: in hedgeCost the hedging state (spot, delta, previous delta, cash, recorded
\* path) is changed by the hedging loop only, once per rebalancing step: the spot and
\* the path in Simulate, the deltas in Reprice, the cash in Rebalance (and at the final
\* settlement); a nested price call leaves the hedging spot, the recorded path, the
\* cash account and the random source of the hedging trajectory unchanged.
C30_HedgeStateOwnedByLoop ==
    [][/\ (hc.pc = "idle" /\ hc'.pc = "loop") =>
             /\ hc'.draws = 0
             /\ hc'.spot = model.spot
             /\ ~Vanilla(option) => hc'.path = <<model.spot>>
       /\ hc.pc = "reprice" =>
             /\ hc'.spot = hc.spot /\ hc'.path = hc.path
             /\ hc'.cash = hc.cash /\ hc'.draws = hc.draws
             /\ Len(hc'.calls) \in {Len(hc.calls), Len(hc.calls) + 2}
       /\ (hc.pc # "idle" /\ (hc'.spot # hc.spot \/ hc'.path # hc.path
                                 \/ hc'.draws # hc.draws)) =>
             /\ hc.pc = "loop" /\ hc'.pc = "reprice"
             /\ hc'.draws = hc.draws + 1
             /\ hc'.calls = hc.calls
       /\ (hc.pc # "idle" /\ (hc'.delta # hc.delta \/ hc'.previousDelta # hc.previousDelta)) =>
             hc.pc = "reprice"
       /\ (hc.pc # "idle" /\ hc'.cash # hc.cash) =>
             /\ hc.pc = "rebalance" \/ hc'.pc = "done"
             /\ hc'.calls = hc.calls]_vars

\* a Reprice step that made two nested calls and changed the delta
C30_Witness ==
    /\ option.variant = "Lookback"
    /\ hc.pc = "rebalance" /\ hc.i = 2 /\ hc.steps = 3
    /\ Len(hc.calls) = 6
    /\ hc.delta # hc.previousDelta
    /\ hc.draws = 2 /\ Len(hc.path) = 3
    /\ hc.spot # model.spot

====
